---- MODULE Spec2Model ----
(***************************************************************************)
(* Model of the custom CAN bus example robot program (roborio/robot.py):   *)
(* the CAN API id builder, the counter command packet encoder, the count   *)
(* packet decoder, and the MyRobot callbacks that the timed robot          *)
(* scheduler invokes.                                                      *)
(***************************************************************************)
EXTENDS Integers, Sequences, FiniteSets, TLC

VARIABLES
    mode,       \* robot mode the scheduler is in
    lastWrite,  \* latest packet handed to can.writePacket (apiId, data)
    display,    \* what the REV Digit display shows
    crashed,    \* an exception escaped a callback: the robot program ended
    last,       \* name of the callback that ran last
    trace,      \* bus / decoder / display calls made by that callback, in order
    sensed,     \* locals read by autonomousPeriodic (buttons, potentiometer, speed)
    call,       \* arguments of a direct call of one of the module functions
    pc,         \* "ready" before that call, "returned" after it
    ret         \* outcome of that call

vars == <<mode, lastWrite, display, crashed, last, trace, sensed, call, pc, ret>>

robotVars == <<mode, lastWrite, display, crashed, last, trace, sensed>>

(***************************************************************************)
(* Bounds of the model.                                                    *)
(***************************************************************************)
\* largest api_class drawn for can_api
MaxApiClass == 17
\* largest api_index drawn for can_api (beyond the 4 bits the shift leaves)
MaxApiIndex == 33
\* speeds are drawn from -SpeedMargin .. 255 + SpeedMargin
SpeedMargin == 3
\* longest payload handed directly to the decoder
MaxLen == 3
\* longest payload the bus delivers to autonomousPeriodic
MaxRxLen == 2
\* the potentiometer reading is k * 5 / PotSteps volts, k in 0..PotSteps
PotSteps == 10

\* byte values payloads are built from
ByteSamples == {0, 1, 18, 52, 127, 128, 255}
\* byte values of the payloads the bus delivers
RxBytes == {18, 52}
\* battery voltages the robot controller reports
BatteryVolts == {11, 12, 13}

(***************************************************************************)
(* Program constants.                                                      *)
(***************************************************************************)
API_CLASS_COUNTER == 0
API_INDEX_COUNTER_CONTROL == 1
API_INDEX_COUNTER_COUNT == 2
\* can_api shifts the class left by this many bits
API_CLASS_SHIFT == 4
\* largest value of struct format "B" (unsigned char)
UBYTE_MAX == 255
\* autonomousPeriodic: speed = int(256 * potentiometer / 5 // 1)
SPEED_SCALE == 256
POT_FULL_SCALE == 5

(***************************************************************************)
(* Python integer and struct primitives used by the program.               *)
(***************************************************************************)
Pow2(n) == 2 ^ n

\* a << n on Python's unbounded integers
Shl(a, n) == a * Pow2(n)

\* a | b on non-negative integers
RECURSIVE BitOr(_, _)
BitOr(a, b) ==
    IF a = 0 THEN b
    ELSE IF b = 0 THEN a
    ELSE (IF a % 2 = 1 \/ b % 2 = 1 THEN 1 ELSE 0) + 2 * BitOr(a \div 2, b \div 2)

\* bit i (0 = least significant) of a non-negative integer
Bit(n, i) == (n \div Pow2(i)) % 2

\* a bool used where an int is expected (bool is a subclass of int)
BoolAsInt(b) == IF b THEN 1 ELSE 0

\* a call either returns a value or raises
Ok(v) == [ok |-> TRUE, val |-> v, err |-> "none"]
Raise(e) == [ok |-> FALSE, val |-> <<>>, err |-> e]

\* struct.pack("<BB", b0, b1) with the unsigned char mask in place of the range check
struct_pack_BB_masking(b0, b1) ==
    Ok(<<b0 % (UBYTE_MAX + 1), b1 % (UBYTE_MAX + 1)>>)

\* struct.pack("<BB", b0, b1): each argument must be in 0..255, else struct.error
struct_pack_BB(b0, b1) ==
    IF b0 \in 0..UBYTE_MAX /\ b1 \in 0..UBYTE_MAX
    THEN Ok(<<b0, b1>>)
    ELSE Raise("struct.error")

\* struct.unpack("<H", buf): buf must be exactly 2 bytes, little-endian
struct_unpack_H(buf) ==
    IF Len(buf) = 2
    THEN Ok(buf[1] + (UBYTE_MAX + 1) * buf[2])
    ELSE Raise("struct.error")

\* data[:n]
SliceTo(data, n) == SubSeq(data, 1, IF Len(data) < n THEN Len(data) ELSE n)

(***************************************************************************)
(* The module functions.                                                   *)
(***************************************************************************)
can_api_shift3(api_class, api_index) == Shl(api_class, 3) + api_index

can_api_or(api_class, api_index) == BitOr(Shl(api_class, API_CLASS_SHIFT), api_index)

can_api(api_class, api_index) == Shl(api_class, API_CLASS_SHIFT) + api_index

\* one iteration of the flag loop: flags = flags << 1; flags = flags | 1 if flag else flags
PackFlag(flags, flag) ==
    LET shifted == Shl(flags, 1)
    IN  IF flag THEN BitOr(shifted, 1) ELSE shifted

RECURSIVE PackFlags(_, _)
PackFlags(flags, flagList) ==
    IF flagList = <<>> THEN flags
    ELSE PackFlags(PackFlag(flags, Head(flagList)), Tail(flagList))

\* the encoder with the flags packed in parameter order
encode_counter_command_packet_param_order(enabled, button_a, button_b, speed) ==
    struct_pack_BB(speed, PackFlags(0, <<enabled, button_a, button_b>>))

encode_counter_command_packet(enabled, button_a, button_b, speed) ==
    struct_pack_BB(speed, PackFlags(0, <<enabled, button_b, button_a>>))

\* the decoder reading the two bytes big-endian
decode_counter_count_packet_big_endian(data) ==
    IF Len(data) >= 2 THEN Ok((UBYTE_MAX + 1) * data[1] + data[2])
    ELSE Raise("struct.error")

\* the decoder without the [:2] slice
decode_counter_count_packet_unsliced(data) == struct_unpack_H(data)

\* the decoder padding a short payload with zero bytes
decode_counter_count_packet_padding(data) ==
    struct_unpack_H(SliceTo(data \o <<0, 0>>, 2))

decode_counter_count_packet(data) == struct_unpack_H(SliceTo(data, 2))

(***************************************************************************)
(* State after construction (robotInit has run).                           *)
(***************************************************************************)
NoPacket == [apiId |-> -1, data |-> <<>>]
Blank == [kind |-> "blank", text |-> <<>>, value |-> 0]
NoInputs == [button_a |-> FALSE, button_b |-> FALSE, pot |-> 0, speed |-> 0]
NoCall == [fn |-> "none"]
NoResult == Raise("not called")

RobotInit ==
    /\ mode = "none"
    /\ lastWrite = NoPacket
    /\ display = Blank
    /\ crashed = FALSE
    /\ last = "robotInit"
    /\ trace = <<>>
    /\ sensed = NoInputs

NoDirectCall ==
    /\ call = NoCall
    /\ pc = "ready"
    /\ ret = NoResult

(***************************************************************************)
(* Direct calls of the three functions, the arguments drawn from bounded   *)
(* sets.                                                                   *)
(***************************************************************************)
SeqsUpTo(S, n) == UNION {[1..k -> S] : k \in 0..n}

ApiCalls ==
    [fn : {"can_api"}, api_class : 0..MaxApiClass, api_index : 0..MaxApiIndex]

InitApi == RobotInit /\ call \in ApiCalls /\ pc = "ready" /\ ret = NoResult

CallCanApi ==
    /\ pc = "ready"
    /\ call.fn = "can_api"
    /\ ret' = Ok(can_api(call.api_class, call.api_index))
    /\ pc' = "returned"
    /\ UNCHANGED <<robotVars, call>>

SpecApi == InitApi /\ [][CallCanApi]_vars

EncodeCalls ==
    [fn : {"encode"}, enabled : BOOLEAN, button_a : BOOLEAN, button_b : BOOLEAN,
     speed : (0 - SpeedMargin)..(UBYTE_MAX + SpeedMargin)]

InitEncode == RobotInit /\ call \in EncodeCalls /\ pc = "ready" /\ ret = NoResult

CallEncode ==
    /\ pc = "ready"
    /\ call.fn = "encode"
    /\ ret' = encode_counter_command_packet(
                  call.enabled, call.button_a, call.button_b, call.speed)
    /\ pc' = "returned"
    /\ UNCHANGED <<robotVars, call>>

SpecEncode == InitEncode /\ [][CallEncode]_vars

DecodeCalls == [fn : {"decode"}, data : SeqsUpTo(ByteSamples, MaxLen)]

InitDecode == RobotInit /\ call \in DecodeCalls /\ pc = "ready" /\ ret = NoResult

CallDecode ==
    /\ pc = "ready"
    /\ call.fn = "decode"
    /\ ret' = decode_counter_count_packet(call.data)
    /\ pc' = "returned"
    /\ UNCHANGED <<robotVars, call>>

SpecDecode == InitDecode /\ [][CallDecode]_vars

\* count as 2 little-endian bytes (the inverse a test harness builds)
LittleEndian16(count) == <<count % (UBYTE_MAX + 1), count \div (UBYTE_MAX + 1)>>

U16_MAX == (UBYTE_MAX + 1) * (UBYTE_MAX + 1) - 1

RoundTripCalls == [fn : {"roundtrip"}, count : 0..U16_MAX]

InitRoundTrip == RobotInit /\ call \in RoundTripCalls /\ pc = "ready" /\ ret = NoResult

CallRoundTrip ==
    /\ pc = "ready"
    /\ call.fn = "roundtrip"
    /\ ret' = decode_counter_count_packet(LittleEndian16(call.count))
    /\ pc' = "returned"
    /\ UNCHANGED <<robotVars, call>>

SpecRoundTrip == InitRoundTrip /\ [][CallRoundTrip]_vars

(***************************************************************************)
(* The MyRobot callbacks, as the timed robot scheduler invokes them.       *)
(***************************************************************************)
\* one call a callback makes on the bus, the decoder or the display
Event(op, apiId, data, ok) == [op |-> op, apiId |-> apiId, data |-> data, ok |-> ok]

HexDigit ==
    <<"0", "1", "2", "3", "4", "5", "6", "7", "8", "9", "a", "b", "c", "d", "e", "f">>

RECURSIVE HexDigits(_)
HexDigits(n) ==
    IF n < 16 THEN <<HexDigit[n + 1]>>
    ELSE HexDigits(n \div 16) \o <<HexDigit[(n % 16) + 1]>>

\* Python's hex(n), n >= 0, as the sequence of its characters
hex(n) == <<"0", "x">> \o HexDigits(n)

Text(chars) == [kind |-> "text", text |-> chars, value |-> 0]
Number(v) == [kind |-> "number", text |-> <<>>, value |-> v]

\* the potentiometer voltage k * 5 / PotSteps as an exact fraction; k = PotSteps
\* is the full-scale reading of 5 volts
Potentiometer(k) == [num |-> POT_FULL_SCALE * k, den |-> PotSteps]

\* int(256 * potentiometer / 5 // 1)
speed_of(pot) == (SPEED_SCALE * pot.num) \div (POT_FULL_SCALE * pot.den)

\* what readPacketLatest can find: nothing, or a packet with some payload.
\* The payload is the device's; the program puts no constraint on its length
\* (CANSim.create_bus_packet in tests/test_can.py stores any bytes), so short
\* payloads are drawn too.
NoRx == [present |-> FALSE, data |-> <<>>]
RxOutcomes ==
    {NoRx} \cup [present : {TRUE}, data : SeqsUpTo(RxBytes, MaxRxLen)]

ControlApiId == can_api(API_CLASS_COUNTER, API_INDEX_COUNTER_CONTROL)

PeriodicReadApiId == can_api(API_CLASS_COUNTER, API_INDEX_COUNTER_COUNT)

\* autonomousPeriodic asking the bus before it writes
PeriodicBusCalls_read_first(msg, rx) ==
    <<Event("read", PeriodicReadApiId, rx.data, rx.present),
      Event("write", ControlApiId, msg, TRUE)>>

\* writePacket(msg, control id), then readPacketLatest(count id)
PeriodicBusCalls(msg, rx) ==
    <<Event("write", ControlApiId, msg, TRUE),
      Event("read", PeriodicReadApiId, rx.data, rx.present)>>

\* if readPacketLatest(...): display_message(hex(decode_counter_count_packet(buffer)))
PeriodicDisplayCalls(rx) ==
    IF rx.present
    THEN LET dec == decode_counter_count_packet(rx.data)
         IN  <<Event("decode", PeriodicReadApiId, rx.data, dec.ok)>>
             \o (IF dec.ok
                 THEN <<Event("display", PeriodicReadApiId, hex(dec.val), TRUE)>>
                 ELSE <<>>)
    ELSE <<>>

\* msg = encode_counter_command_packet(True, button_a, button_b, speed)
PeriodicMsg(button_a, button_b, speed) ==
    encode_counter_command_packet(TRUE, button_a, button_b, speed)

ExitMsg_enabled == encode_counter_command_packet(TRUE, TRUE, TRUE, BoolAsInt(TRUE))

\* msg = encode_counter_command_packet(False, True, True, True)
ExitMsg == encode_counter_command_packet(FALSE, TRUE, TRUE, BoolAsInt(TRUE))

Init == RobotInit /\ NoDirectCall

\* the scheduler moves between modes whose init and exit hooks MyRobot does
\* not override
ModeChange ==
    /\ ~crashed
    /\ mode \in {"none", "disabled", "teleop", "test"}
    /\ \E m \in {"disabled", "teleop", "test"} \ {mode} : mode' = m
    /\ last' = "modeChange"
    /\ trace' = <<>>
    /\ sensed' = NoInputs
    /\ UNCHANGED <<lastWrite, display, crashed, call, pc, ret>>

autonomousInit ==
    /\ ~crashed
    /\ mode # "autonomous"
    /\ mode' = "autonomous"
    /\ display' = Blank
    /\ last' = "autonomousInit"
    /\ trace' = <<Event("clear_display", -1, <<>>, TRUE)>>
    /\ sensed' = NoInputs
    /\ UNCHANGED <<lastWrite, crashed, call, pc, ret>>

\* the callback's effect once the message is encoded: the calls it makes, in
\* order, and whether an exception escapes it
PeriodicCalls(msg, rx) ==
    IF msg.ok
    THEN PeriodicBusCalls(msg.val, rx) \o PeriodicDisplayCalls(rx)
    ELSE <<>>

\* the callback handles no exception: a struct.error from the encoder or the
\* decoder escapes it and ends the robot program
PeriodicRaised(msg, calls) ==
    \/ ~msg.ok
    \/ \E i \in 1..Len(calls) : calls[i].op = "decode" /\ ~calls[i].ok

\* the latest event of kind op among calls, or none
LatestOf(calls, op) ==
    LET at == {i \in 1..Len(calls) : calls[i].op = op}
    IN  IF at = {} THEN <<>>
        ELSE <<calls[CHOOSE i \in at : \A j \in at : j <= i]>>

autonomousPeriodic ==
    /\ ~crashed
    /\ mode = "autonomous"
    /\ \E button_a \in BOOLEAN, button_b \in BOOLEAN, k \in 0..PotSteps, rx \in RxOutcomes :
        \E speed \in {speed_of(Potentiometer(k))} :
        \E msg \in {PeriodicMsg(button_a, button_b, speed)} :
        \E calls \in {PeriodicCalls(msg, rx)} :
        \E written \in {LatestOf(calls, "write")}, shown \in {LatestOf(calls, "display")} :
            /\ sensed' = [button_a |-> button_a, button_b |-> button_b,
                          pot |-> Potentiometer(k), speed |-> speed]
            /\ trace' = calls
            /\ lastWrite' = IF written = <<>> THEN lastWrite
                            ELSE [apiId |-> written[1].apiId, data |-> written[1].data]
            /\ display' = IF shown = <<>> THEN display ELSE Text(shown[1].data)
            /\ crashed' = PeriodicRaised(msg, calls)
    /\ last' = "autonomousPeriodic"
    /\ UNCHANGED <<mode, call, pc, ret>>

autonomousExit ==
    /\ ~crashed
    /\ mode = "autonomous"
    /\ \E m \in {"disabled", "teleop", "test"} : mode' = m
    /\ LET msg == ExitMsg
       IN  IF msg.ok
           THEN /\ trace' = <<Event("write", ControlApiId, msg.val, TRUE)>>
                /\ lastWrite' = [apiId |-> ControlApiId, data |-> msg.val]
                /\ crashed' = FALSE
           ELSE /\ trace' = <<>>
                /\ lastWrite' = lastWrite
                /\ crashed' = TRUE
    /\ last' = "autonomousExit"
    /\ sensed' = NoInputs
    /\ UNCHANGED <<display, call, pc, ret>>

disabledPeriodic ==
    /\ ~crashed
    /\ mode = "disabled"
    /\ \E v \in BatteryVolts :
        /\ display' = Number(v)
        /\ trace' = <<Event("display", -1, <<v>>, TRUE)>>
    /\ last' = "disabledPeriodic"
    /\ sensed' = NoInputs
    /\ UNCHANGED <<mode, lastWrite, crashed, call, pc, ret>>

robotPeriodic ==
    /\ ~crashed
    /\ mode # "none"
    /\ last' = "robotPeriodic"
    /\ trace' = <<>>
    /\ sensed' = NoInputs
    /\ UNCHANGED <<mode, lastWrite, display, crashed, call, pc, ret>>

Next ==
    \/ ModeChange
    \/ autonomousInit
    \/ autonomousPeriodic
    \/ autonomousExit
    \/ disabledPeriodic
    \/ robotPeriodic

Spec == Init /\ [][Next]_vars

(***************************************************************************)
(* Properties of the three functions.                                      *)
(***************************************************************************)
Returned == pc = "returned"

\* C1: for every flag combination and every speed in 0..255 the encoder
\* returns exactly the 2 bytes [speed, 4*enabled + 2*button_b + button_a]:
\* bit 2 of byte 1 is enabled, bit 1 is button_b, bit 0 is button_a and
\* bits 3-7 are 0.
Thm_C1_EncodeLayout ==
    (Returned /\ call.speed \in 0..255) =>
        /\ ret.ok
        /\ ret.val = <<call.speed,
                       4 * BoolAsInt(call.enabled) + 2 * BoolAsInt(call.button_b)
                         + BoolAsInt(call.button_a)>>
        /\ Len(ret.val) = 2
        /\ Bit(ret.val[2], 2) = BoolAsInt(call.enabled)
        /\ Bit(ret.val[2], 1) = BoolAsInt(call.button_b)
        /\ Bit(ret.val[2], 0) = BoolAsInt(call.button_a)
        /\ ret.val[2] \div 8 = 0

Wit_C1_EncodeLayout ==
    /\ Returned
    /\ call.enabled = FALSE /\ call.button_a = FALSE /\ call.button_b = TRUE
    /\ call.speed = 255
    /\ ret.ok /\ ret.val = <<255, 2>>

\* C6 as stated: the encoder never fails; for every integer speed, also
\* outside 0..255, it returns 2 bytes with byte 0 = speed truncated to 8 bits.
CE_C6_EncodeNeverFails ==
    Returned =>
        /\ ret.ok
        /\ Len(ret.val) = 2
        /\ ret.val[1] = call.speed % 256

\* C6 amended: the encoder returns (exactly 2 bytes, byte 0 = speed) exactly
\* when speed is in 0..255; for any other speed it raises struct.error and
\* returns nothing.
Thm_C6_EncodeRangeChecked ==
    Returned =>
        /\ ret.ok <=> call.speed \in 0..255
        /\ ret.ok => (Len(ret.val) = 2 /\ ret.val[1] = call.speed)
        /\ ~ret.ok => (ret.err = "struct.error" /\ ret.val = <<>>)

Wit_C6_EncodeRangeChecked ==
    Returned /\ call.speed = 256 /\ ~ret.ok /\ ret.err = "struct.error"

\* C2: for a payload of length >= 2 the decoder returns
\* payload[0] + 256*payload[1], a value in 0..65535, whatever bytes follow
\* the first two.
Thm_C2_DecodeLittleEndian ==
    (Returned /\ Len(call.data) >= 2) =>
        /\ ret.ok
        /\ ret.val = call.data[1] + 256 * call.data[2]
        /\ ret.val \in 0..65535
        /\ \A rest \in SeqsUpTo(ByteSamples, MaxLen - 2) :
               decode_counter_count_packet(SubSeq(call.data, 1, 2) \o rest) = ret

Wit_C2_DecodeLittleEndian ==
    Returned /\ call.data = <<52, 18, 255>> /\ ret.ok /\ ret.val = 4660

\* C5: the decoder fails (struct.error, the malformed-packet error) exactly
\* when the payload has fewer than 2 bytes; the error is the outcome of the
\* call, handed to the caller.
Thm_C5_DecodeFailsIffShort ==
    Returned =>
        /\ ~ret.ok <=> Len(call.data) < 2
        /\ ~ret.ok => ret.err = "struct.error"

Wit_C5_DecodeFailsIffShort ==
    Returned /\ call.data = <<1>> /\ ~ret.ok /\ ret.err = "struct.error"

\* C7: for every count in 0..65535, decoding the 2 little-endian bytes of
\* count returns count.
Thm_C7_RoundTrip ==
    Returned => (ret.ok /\ ret.val = call.count)

Wit_C7_RoundTrip ==
    Returned /\ call.count = 4660 /\ ret.ok /\ ret.val = 4660

NibbleMax == Pow2(API_CLASS_SHIFT) - 1

\* C3: for api_class and api_index in 0..15, can_api returns
\* api_class*16 + api_index, and no other pair in that range gives the same
\* address.
Thm_C3_CanApiInRange ==
    (Returned /\ call.api_class \in 0..NibbleMax /\ call.api_index \in 0..NibbleMax) =>
        /\ ret.val = call.api_class * 16 + call.api_index
        /\ \A c \in 0..NibbleMax, i \in 0..NibbleMax :
               can_api(c, i) = ret.val => (c = call.api_class /\ i = call.api_index)

Wit_C3_CanApiInRange ==
    Returned /\ call.api_class = 15 /\ call.api_index = 15 /\ ret.val = 255

\* C4 as stated: for every non-negative api_class and api_index, also
\* api_index >= 16, can_api returns (api_class << 4) | api_index.
CE_C4_CanApiIsBitwiseOr ==
    Returned => ret.val = BitOr(Shl(call.api_class, 4), call.api_index)

\* C4 amended: for every non-negative api_class and api_index can_api
\* returns the sum (api_class << 4) + api_index; that is the bitwise OR
\* whenever api_index < 16.
Thm_C4_CanApiIsSum ==
    Returned =>
        /\ ret.val = call.api_class * 16 + call.api_index
        /\ call.api_index < 16 =>
               ret.val = BitOr(Shl(call.api_class, 4), call.api_index)

Wit_C4_CanApiIsSum ==
    /\ Returned
    /\ call.api_class = 1 /\ call.api_index = 16
    /\ ret.val = 32
    /\ BitOr(Shl(call.api_class, 4), call.api_index) = 16

(***************************************************************************)
(* Properties of the callbacks.                                            *)
(***************************************************************************)
Positions(op) == {i \in 1..Len(trace) : trace[i].op = op}

EnabledBit(data) == Bit(data[2], 2)

\* C8: in every autonomousPeriodic callback the encoded command packet is
\* written with the control id can_api(0,1) = 1 before the bus is asked for
\* the latest packet, the bus is asked for the count id can_api(0,2) = 2,
\* which is not the id written to, and the decoder and the display are
\* called only after a read that found a packet.
Thm_C8_WriteThenGatedRead ==
    last = "autonomousPeriodic" =>
        /\ \A r \in Positions("read") :
               /\ trace[r].apiId = 2
               /\ \E w \in Positions("write") :
                      /\ w < r
                      /\ trace[w].apiId = 1
                      /\ trace[w].apiId # trace[r].apiId
                      /\ Ok(trace[w].data) =
                             encode_counter_command_packet(
                                 TRUE, sensed.button_a, sensed.button_b, sensed.speed)
        /\ \A d \in Positions("decode") \cup Positions("display") :
               \E r \in Positions("read") : r < d /\ trace[r].ok
        /\ Positions("write") # {} => Positions("read") # {}
        /\ (\E r \in Positions("read") : ~trace[r].ok) =>
               (Positions("decode") = {} /\ Positions("display") = {})

Wit_C8_WriteThenGatedRead ==
    /\ last = "autonomousPeriodic"
    /\ Len(trace) = 4
    /\ trace[1].op = "write" /\ trace[1].apiId = 1
    /\ trace[2].op = "read" /\ trace[2].apiId = 2 /\ trace[2].ok
    /\ trace[3].op = "decode"
    /\ trace[4].op = "display" /\ trace[4].data = hex(4660)
    /\ display = Text(<<"0", "x", "1", "2", "3", "4">>)

\* C9: every packet autonomousPeriodic writes has the enabled bit set;
\* autonomousExit writes one well-formed 2-byte command with the enabled bit
\* clear to the control id; no other callback writes; so outside autonomous
\* mode the latest packet written, if any, went to the control id with
\* enabled = 0.
Thm_C9_DisabledAfterExit ==
    /\ last = "autonomousPeriodic" =>
           \A w \in Positions("write") :
               Len(trace[w].data) = 2 /\ EnabledBit(trace[w].data) = 1
    /\ last = "autonomousExit" =>
           /\ Len(trace) = 1
           /\ trace[1].op = "write"
           /\ trace[1].apiId = ControlApiId
           /\ Len(trace[1].data) = 2
           /\ trace[1].data[1] \in 0..255 /\ trace[1].data[2] \in 0..7
           /\ EnabledBit(trace[1].data) = 0
    /\ last \notin {"autonomousPeriodic", "autonomousExit"} => Positions("write") = {}
    /\ (mode # "autonomous" /\ lastWrite # NoPacket) =>
           /\ lastWrite.apiId = ControlApiId
           /\ Len(lastWrite.data) = 2
           /\ EnabledBit(lastWrite.data) = 0
    /\ (mode = "autonomous" /\ last = "autonomousPeriodic" /\ Positions("write") # {}) =>
           EnabledBit(lastWrite.data) = 1

Wit_C9_DisabledAfterExit ==
    /\ mode = "disabled"
    /\ last = "disabledPeriodic"
    /\ lastWrite = [apiId |-> 1, data |-> <<1, 3>>]

\* C10: for every potentiometer reading from 0 to 5 volts, 5 included, the
\* speed autonomousPeriodic computes is in 0..255, and the callback encodes
\* and writes the command packet.
CE_C10_SpeedInByteRange ==
    last = "autonomousPeriodic" =>
        /\ sensed.speed \in 0..255
        /\ Positions("write") # {}

====
